---- MODULE Spec2Model ----
(***************************************************************************)
(* Brand-themeable login page: the brand configuration system (config.js)  *)
(* and the form / modal interaction controller (script.js).                *)
(*                                                                         *)
(* Three specifications share the definitions below:                       *)
(*   SpecBrand  the public entry points of window.BrandConfig              *)
(*   SpecUI     the wired DOM events and the timers they start             *)
(*   SpecVal    the pure predicates of FormValidator                       *)
(***************************************************************************)
EXTENDS Integers, Sequences, FiniteSets, TLC

VARIABLES
    missing,        \* the expected elements the page markup lacks (fixed per page)
    search,         \* value of the 'brand' query parameter ("(null)" when absent)
    currentBrand,   \* config.js: let currentBrand
    page,           \* the brand-derived DOM state written by config.js
    thrown,         \* TRUE when the last call ended with an uncaught exception
    AppState,       \* script.js: const AppState
    modals,         \* per modal overlay: 'active' class flag and aria-hidden attribute
    bodyOverflow,   \* document.body.style.overflow
    activeElement,  \* document.activeElement
    timers,         \* pending setTimeout callbacks, in creation order
    announcements,  \* sr-only nodes currently appended to document.body
    nextButton,     \* #next-button: span text and style.backgroundColor
    errors,         \* per form field: 'error' class flag and error element text
    trapCount,      \* per modal: number of keydown focus-trap listeners installed
    charCount,      \* #char-count: text content and colour
    vin,            \* input of the last FormValidator call (SpecVal)
    vout,           \* result of the last call of a pure function (a validator's
                    \* result as its truthiness)
    hist            \* the last step: its operation and argument, the ModalManager
                    \* call it made and the focus it started from; for a call through
                    \* window.LoginSystem that follows an openModal call, the modal
                    \* that call opened and the focus it started from; and the brand
                    \* state a brand call started from

brandVars == <<currentBrand, page>>
uiVars == <<AppState, modals, bodyOverflow, activeElement, timers, announcements,
            nextButton, errors, trapCount, charCount>>
valVars == <<vin, vout>>
vars == <<missing, search, currentBrand, page, thrown, AppState, modals,
          bodyOverflow, activeElement, timers, announcements, nextButton,
          errors, trapCount, charCount, vin, vout, hist>>

(***************************************************************************)
(* Bounds of the model                                                     *)
(***************************************************************************)
MaxTimers == 2      \* a handler that starts timers runs while fewer are pending
MaxOpens == 2       \* openModal calls per modal (each installs a keydown listener)

(***************************************************************************)
(* Strings that are inspected character by character are sequences of      *)
(* one-character strings; texts that are only stored are TLA+ strings.     *)
(***************************************************************************)

(***************************************************************************)
(* config.js: the brand registry                                           *)
(***************************************************************************)
reasonOptions ==
    << [value |-> "", text |-> "Select..."],
       [value |-> "technical-support", text |-> "Technical Support"],
       [value |-> "billing", text |-> "Billing"],
       [value |-> "general-inquiry", text |-> "General Inquiry"],
       [value |-> "feature-request", text |-> "Feature Request"],
       [value |-> "other", text |-> "Other"] >>

CommonLabels(para, phone) ==
    [ loginLabel |-> "Log In",
      loginPagePara |-> para,
      createAccountLabel |-> "Create Account",
      buttonLabelNext |-> "Next",
      needHelpLabel |-> "Need help?",
      keepMeSignedIn |-> "Keep me signed in",
      passwordLabel |-> "Password",
      forgetPasswordLabel |-> "Forget Password?",
      contactUsTitle |-> "Contact Us",
      thankYouTitle |-> "Thank You!",
      thankYouMessage |-> "Your Contact request has been submitted. A team member will contact you soon.",
      sendButton |-> "Send",
      okButton |-> "OK",
      userSupportTitle |-> "User Support:",
      phoneNumber |-> phone,
      emailLabel |-> "*Email Address",
      nameLabel |-> "Name",
      phoneLabel |-> "Phone Number",
      reasonLabel |-> "*Reason",
      messageLabel |-> "*Message",
      messagePlaceholder |-> "Enter Message",
      reasonOptions |-> reasonOptions ]

BRAND_CONFIGS ==
    [ greenheck |->
        [ name |-> "Greenheck",
          logoPath |-> "Greenheck_Logo.png",
          tagline |-> "",
          primaryColor |-> <<"#","1","e","4","0","a","f">>,
          secondaryColor |-> <<"#","6","b","7","2","8","0">>,
          labels |-> CommonLabels("Please log in to your Greenheck account.",
                                  "(855) 886-8324") ],
      neutral |->
        [ name |-> "Company",
          logoPath |-> "https://via.placeholder.com/200x60/4b5563/ffffff?text=LOGO",
          tagline |-> "",
          primaryColor |-> <<"#","4","b","5","5","6","3">>,
          secondaryColor |-> <<"#","6","b","7","2","8","0">>,
          labels |-> CommonLabels("Please log in to your account.",
                                  "(855) 123-4567") ] ]

\* window.BrandConfig.getAvailableBrands: Object.keys(BRAND_CONFIGS)
getAvailableBrands == DOMAIN BRAND_CONFIGS

\* BRAND_CONFIGS is an object literal: a property read that finds no own key
\* goes on to Object.prototype.  These are the inherited keys the model draws;
\* each maps to the 'name' property of the inherited value ("undefined" when
\* that value has none).
ObjectPrototypeName ==
    [ constructor |-> "Object",
      toString |-> "toString",
      __proto__ |-> "undefined" ]

\* The JavaScript value of BRAND_CONFIGS[key].
BrandLookup(key) ==
    IF key \in DOMAIN BRAND_CONFIGS
    THEN [kind |-> "config", key |-> key]
    ELSE IF key \in DOMAIN ObjectPrototypeName
         THEN [kind |-> "inherited", key |-> key]
         ELSE [kind |-> "undefined", key |-> ""]

Truthy(v) == v.kind # "undefined"

\* getCurrentBrandConfig(): BRAND_CONFIGS[currentBrand] || BRAND_CONFIGS.greenheck
getCurrentBrandConfig(brand) ==
    IF Truthy(BrandLookup(brand)) THEN BrandLookup(brand) ELSE BrandLookup("greenheck")

(***************************************************************************)
(* config.js: the colour utility                                           *)
(***************************************************************************)
HexDigits == <<"0","1","2","3","4","5","6","7","8","9","a","b","c","d","e","f">>

IsHexDigit(c) ==
    \/ \E i \in 1..16 : HexDigits[i] = c
    \/ c \in {"A","B","C","D","E","F"}

HexVal(c) ==
    CASE c = "A" -> 10 [] c = "B" -> 11 [] c = "C" -> 12
      [] c = "D" -> 13 [] c = "E" -> 14 [] c = "F" -> 15
      [] OTHER -> (CHOOSE i \in 1..16 : HexDigits[i] = c) - 1

NaN == -1

\* color.replace("#", ""): the first '#' is removed, wherever it stands
StripHash(color) ==
    IF \E i \in 1..Len(color) : color[i] = "#"
    THEN LET i == CHOOSE k \in 1..Len(color) :
                      color[k] = "#" /\ \A j \in 1..(k-1) : color[j] # "#"
         IN  SubSeq(color, 1, i-1) \o SubSeq(color, i+1, Len(color))
    ELSE color

RECURSIVE HexPrefixValue(_, _)
HexPrefixValue(digits, acc) ==
    IF digits = <<>> \/ ~IsHexDigit(Head(digits)) THEN acc
    ELSE HexPrefixValue(Tail(digits), acc * 16 + HexVal(Head(digits)))

\* parseInt(s, 16) on a string without sign or radix prefix: the value of the
\* longest prefix of hex digits, NaN when that prefix is empty
parseInt16(s) ==
    IF s = <<>> \/ ~IsHexDigit(Head(s)) THEN NaN ELSE HexPrefixValue(s, 0)

\* ToInt32 of a parse result (NaN becomes 0)
ToInt32(num) == IF num = NaN THEN 0 ELSE num

RECURSIVE Log2Floor(_)
\* the exponent e of a positive integer n: 2^e <= n < 2^(e+1)
Log2Floor(n) == IF n < 2 THEN 0 ELSE 1 + Log2Floor(n \div 2)

\* 2.55 * percent lands on the double below the exact product. The literal
\* 2.55 is the double 2.55 - 0.4 * 2^-51, so the product of doubles falls
\* short of 255 * percent / 100 by 0.8 * percent * 2^-52 before it is rounded
\* to the nearest double. This changes Math.round only when the exact product
\* is a half-integer h, with 2^e <= h < 2^(e+1): the doubles below h are
\* 2^(e-52) apart, and the product is rounded down to the next one when the
\* shortfall exceeds half of that, 8 * percent > 5 * 2^e (on a tie it is
\* rounded to h, whose last bit is even).
ProductBelowHalf(percent) ==
    /\ percent > 0
    /\ (255 * percent) % 100 = 50
    /\ 8 * percent > 5 * 2^(Log2Floor((255 * percent) \div 50) - 1)

\* Math.round(2.55 * percent) for an integer percent: floor(x + 0.5) of the
\* product of doubles x
RoundAmt(percent) ==
    IF ProductBelowHalf(percent) THEN (255 * percent - 50) \div 100
    ELSE (255 * percent + 50) \div 100

\* R < 255 ? R < 1 ? 0 : R : 255
Clamp(ch) == IF ch < 255 THEN (IF ch < 1 THEN 0 ELSE ch) ELSE 255

RECURSIVE ToHex(_)
\* Number.prototype.toString(16) of a positive integer
ToHex(n) ==
    IF n < 16 THEN <<HexDigits[n + 1]>>
    ELSE ToHex(n \div 16) \o <<HexDigits[(n % 16) + 1]>>

darkenColor(color, percent) ==
    LET num == parseInt16(StripHash(color))
        amt == RoundAmt(percent)
        R == (ToInt32(num) \div 65536) - amt
        G == ((ToInt32(num) \div 256) % 256) - amt
        B == (ToInt32(num) % 256) - amt
    IN  <<"#">> \o Tail(ToHex(16777216 + Clamp(R) * 65536 + Clamp(G) * 256 + Clamp(B)))

\* updateColors(primaryColor, secondaryColor): the custom properties written
\* on the document root
updateColors(primaryColor, secondaryColor) ==
    [ primaryBlue |-> primaryColor,
      secondaryGray |-> secondaryColor,
      brandPrimaryColor |-> primaryColor,
      brandSecondaryColor |-> secondaryColor,
      brandAccentColor |-> primaryColor,
      brandAccentHover |-> darkenColor(primaryColor, 20),
      brandLinkColor |-> primaryColor,
      brandLinkHover |-> darkenColor(primaryColor, 20),
      brandFocusColor |-> primaryColor,
      btnBg |-> primaryColor,
      linkColor |-> primaryColor,
      btnBorderColor |-> primaryColor ]

(***************************************************************************)
(* config.js: the brand applier                                            *)
(***************************************************************************)
\* Elements whose textContent updateLabels / updateContactFormLabels set from
\* a label, each guarded by a lookup: element id (or selector) |-> label key
TextKey ==
    ("login-heading" :> "loginLabel") @@
    ("login-description" :> "loginPagePara") @@
    ("email-label" :> "emailLabel") @@
    ("keep-signed-in-label" :> "keepMeSignedIn") @@
    ("next-button-text" :> "buttonLabelNext") @@
    ("create-account-link" :> "createAccountLabel") @@
    ("need-help-link" :> "needHelpLabel") @@
    ("contact-modal-title" :> "contactUsTitle") @@
    (".support-title" :> "userSupportTitle") @@
    (".phone-number" :> "phoneNumber") @@
    ("label[for=contact-email] span" :> "emailLabel") @@
    ("label[for=contact-name] span" :> "nameLabel") @@
    ("label[for=contact-phone] span" :> "phoneLabel") @@
    ("label[for=contact-reason] span" :> "reasonLabel") @@
    ("label[for=contact-message] span" :> "messageLabel") @@
    ("thank-you-modal-title" :> "thankYouTitle") @@
    (".thank-you-message" :> "thankYouMessage")

\* Every element text the brand applier may write
TextElements == DOMAIN TextKey \cup {"company-tagline", "ok-button span", "send-button span"}

\* Elements config.js looks up besides the text targets
BrandElements ==
    TextElements \cup {"company-logo", "meta[name=description]", "contact-message",
                       "contact-reason", "ok-button", "send-button", "script[type=ld+json]"}

\* String.prototype.toLowerCase on the names the model draws
toLowerCase(name) ==
    CASE name = "Greenheck" -> "greenheck"
      [] name = "Company" -> "company"
      [] name = "Custom Brand" -> "custom brand"
      [] name = "Acme Air" -> "acme air"
      [] OTHER -> name

\* String.prototype.replace(/\s+/g, '') on the lower-cased names
removeWhitespace(name) ==
    CASE name = "custom brand" -> "custombrand"
      [] name = "acme air" -> "acmeair"
      [] OTHER -> name

\* The script[type="application/ld+json"] tag: created when absent, then its
\* textContent overwritten with the JSON of this record
WriteStructuredData(pg, data) ==
    [pg EXCEPT !.ld = [exists |-> TRUE, data |-> data],
               !.scriptsCreated = IF pg.ld.exists THEN @ ELSE @ + 1]

updateStructuredData(pg, config) ==
    WriteStructuredData(pg,
        [ name |-> config.labels.loginLabel \o " Page",
          description |-> config.labels.loginLabel \o " page for " \o config.name
                          \o " user authentication",
          publisher |-> config.name,
          url |-> "https://www." \o toLowerCase(config.name) \o ".com" ])

\* updateLabels(labels), with updateContactFormLabels and updateReasonOptions:
\* the page after it, and whether it raised (a #ok-button or
\* #send-button without a span makes querySelector('span') null)
updateLabels(pg, labels, miss) ==
    LET byKey == [pg EXCEPT
            !.text = [e \in TextElements |->
                        IF e \in DOMAIN TextKey /\ e \notin miss
                        THEN labels[TextKey[e]] ELSE @[e]],
            !.placeholder = IF "contact-message" \notin miss
                            THEN labels.messagePlaceholder ELSE @,
            !.options = IF "contact-reason" \notin miss THEN labels.reasonOptions ELSE @]
        okThrows == "ok-button" \notin miss /\ "ok-button span" \in miss
        afterOk == IF "ok-button" \notin miss /\ ~okThrows
                   THEN [byKey EXCEPT !.text["ok-button span"] = labels.okButton]
                   ELSE byKey
        sendThrows == "send-button" \notin miss /\ "send-button span" \in miss
        afterSend == IF "send-button" \notin miss /\ ~sendThrows
                     THEN [afterOk EXCEPT !.text["send-button span"] = labels.sendButton]
                     ELSE afterOk
    IN  IF okThrows THEN [page |-> byKey, thrown |-> TRUE]
        ELSE IF sendThrows THEN [page |-> afterOk, thrown |-> TRUE]
        ELSE [page |-> afterSend, thrown |-> FALSE]

\* applyBrandConfiguration() for a value of getCurrentBrandConfig() that is an
\* inherited property of the registry object: logoPath, tagline and labels are
\* undefined, so the logo and tagline are written and the read of
\* config.labels.loginLabel raises
applyInherited(pg, key, miss) ==
    LET withLogo == IF "company-logo" \notin miss
                    THEN [pg EXCEPT !.logoSrc = "undefined",
                                    !.logoAlt = ObjectPrototypeName[key] \o " Logo"]
                    ELSE pg
        withTagline == IF "company-tagline" \notin miss
                       THEN [withLogo EXCEPT !.text["company-tagline"] = ""]
                       ELSE withLogo
    IN  [page |-> withTagline, thrown |-> TRUE]

applyConfig(pg, config, miss) ==
    LET withLogo == IF "company-logo" \notin miss
                    THEN [pg EXCEPT !.logoSrc = config.logoPath,
                                    !.logoAlt = config.name \o " Logo"]
                    ELSE pg
        withTagline == IF "company-tagline" \notin miss
                       THEN [withLogo EXCEPT !.text["company-tagline"] = config.tagline]
                       ELSE withLogo
        withTitle == [withTagline EXCEPT
                        !.title = config.labels.loginLabel \o " - " \o config.name]
        withMeta == IF "meta[name=description]" \notin miss
                    THEN [withTitle EXCEPT !.meta = config.labels.loginLabel
                            \o " to your " \o config.name
                            \o " account - Secure access to your dashboard"]
                    ELSE withTitle
        labelled == updateLabels(withMeta, config.labels, miss)
        coloured == [labelled.page EXCEPT
                        !.css = updateColors(config.primaryColor, config.secondaryColor)]
    IN  IF labelled.thrown THEN labelled
        ELSE [page |-> updateStructuredData(coloured, config), thrown |-> FALSE]

\* applyBrandConfiguration(): the page after it and whether it raised
applyBrandConfiguration(pg, brand, miss) ==
    LET config == getCurrentBrandConfig(brand)
    IN  IF config.kind = "inherited"
        THEN applyInherited(pg, config.key, miss)
        ELSE applyConfig(pg, BRAND_CONFIGS[config.key], miss)

setBrand_NoAssign(st, brandName, miss) ==
    IF Truthy(BrandLookup(brandName))
    THEN [currentBrand |-> st.currentBrand] @@
         applyBrandConfiguration(st.page, st.currentBrand, miss)
    ELSE [currentBrand |-> st.currentBrand, page |-> st.page, thrown |-> FALSE]

\* setBrand(brandName) from brand state st = [currentBrand, page]
setBrand(st, brandName, miss) ==
    IF Truthy(BrandLookup(brandName))
    THEN [currentBrand |-> brandName] @@
         applyBrandConfiguration(st.page, brandName, miss)
    ELSE [currentBrand |-> st.currentBrand, page |-> st.page, thrown |-> FALSE]

setCustomBrand_Relabel(st, primaryColor, secondaryColor, logoPath, brandName, miss) ==
    LET relabelled == updateLabels(st.page, BRAND_CONFIGS.neutral.labels, miss).page
        coloured == [relabelled EXCEPT !.css = updateColors(primaryColor, secondaryColor)]
        withLogo == IF "company-logo" \notin miss /\ logoPath # ""
                    THEN [coloured EXCEPT !.logoSrc = logoPath,
                                          !.logoAlt = brandName \o " Logo"]
                    ELSE coloured
        withTitle == [withLogo EXCEPT !.title = "Login - " \o brandName]
        withMeta == IF "meta[name=description]" \notin miss
                    THEN [withTitle EXCEPT !.meta = "Login to your " \o brandName
                            \o " account - Secure access to your dashboard"]
                    ELSE withTitle
    IN  [ currentBrand |-> st.currentBrand,
          page |-> WriteStructuredData(withMeta,
                     [ name |-> "Login Page",
                       description |-> "Login page for " \o brandName
                                       \o " user authentication",
                       publisher |-> brandName,
                       url |-> "https://www."
                               \o removeWhitespace(toLowerCase(brandName)) \o ".com" ]),
          thrown |-> FALSE ]

\* setCustomBrand(primaryColor, secondaryColor, logoPath, brandName)
setCustomBrand(st, primaryColor, secondaryColor, logoPath, brandName, miss) ==
    LET coloured == [st.page EXCEPT !.css = updateColors(primaryColor, secondaryColor)]
        withLogo == IF "company-logo" \notin miss /\ logoPath # ""
                    THEN [coloured EXCEPT !.logoSrc = logoPath,
                                          !.logoAlt = brandName \o " Logo"]
                    ELSE coloured
        withTitle == [withLogo EXCEPT !.title = "Login - " \o brandName]
        withMeta == IF "meta[name=description]" \notin miss
                    THEN [withTitle EXCEPT !.meta = "Login to your " \o brandName
                            \o " account - Secure access to your dashboard"]
                    ELSE withTitle
    IN  [ currentBrand |-> st.currentBrand,
          page |-> WriteStructuredData(withMeta,
                     [ name |-> "Login Page",
                       description |-> "Login page for " \o brandName
                                       \o " user authentication",
                       publisher |-> brandName,
                       url |-> "https://www."
                               \o removeWhitespace(toLowerCase(brandName)) \o ".com" ]),
          thrown |-> FALSE ]

\* initializeConfig() with brandParam = urlParams.get('brand') ("(null)": absent)
initializeConfig(st, brandParam, miss) ==
    IF brandParam # "(null)" /\ brandParam # "" /\ Truthy(BrandLookup(brandParam))
    THEN setBrand(st, brandParam, miss)
    ELSE [currentBrand |-> st.currentBrand] @@
         applyBrandConfiguration(st.page, st.currentBrand, miss)

(***************************************************************************)
(* script.js: FormValidator.  Field values are sequences of one-character  *)
(* strings; each predicate yields the truthiness of the JavaScript result. *)
(***************************************************************************)
MaxMessageLength == 2000

IsSpace(c) == c \in {" ", "\t", "\n"}

IsDigit(c) == c \in {"0","1","2","3","4","5","6","7","8","9"}

RECURSIVE TrimLeft(_)
TrimLeft(s) == IF s # <<>> /\ IsSpace(Head(s)) THEN TrimLeft(Tail(s)) ELSE s

RECURSIVE TrimRight(_)
TrimRight(s) ==
    IF s # <<>> /\ IsSpace(s[Len(s)]) THEN TrimRight(SubSeq(s, 1, Len(s) - 1)) ELSE s

\* String.prototype.trim
Trim(s) == TrimRight(TrimLeft(s))

\* a run matched by [^\s@]+
NoSpaceAt(s) == s # <<>> /\ \A i \in 1..Len(s) : ~IsSpace(s[i]) /\ s[i] # "@"

validateEmail_NoDot(email) ==
    \E i \in 1..Len(email) :
        /\ email[i] = "@"
        /\ NoSpaceAt(SubSeq(email, 1, i - 1))
        /\ NoSpaceAt(SubSeq(email, i + 1, Len(email)))

\* emailRegex.test(email): /^[^\s@]+@[^\s@]+\.[^\s@]+$/
validateEmail(email) ==
    \E i \in 1..Len(email) : \E j \in (i+1)..Len(email) :
        /\ email[i] = "@"
        /\ email[j] = "."
        /\ NoSpaceAt(SubSeq(email, 1, i - 1))
        /\ NoSpaceAt(SubSeq(email, i + 1, j - 1))
        /\ NoSpaceAt(SubSeq(email, j + 1, Len(email)))

\* phone.replace(/[\s\-\(\)]/g, '')
cleanPhone(phone) == SelectSeq(phone, LAMBDA c : ~IsSpace(c) /\ c \notin {"-", "(", ")"})

\* phoneRegex.test(clean): /^[\+]?[1-9][\d]{0,15}$/
phoneRegex(clean) ==
    LET digits == IF clean # <<>> /\ Head(clean) = "+" THEN Tail(clean) ELSE clean
    IN  /\ digits # <<>>
        /\ IsDigit(Head(digits)) /\ Head(digits) # "0"
        /\ Len(digits) <= 16
        /\ \A i \in 1..Len(digits) : IsDigit(digits[i])

validatePhone_NoClean(phone) == phoneRegex(phone)

\* FormValidator.validatePhone(phone)
validatePhone(phone) == phoneRegex(cleanPhone(phone))

\* value && value.trim().length > 0
validateRequired(value) == value # <<>> /\ Len(Trim(value)) > 0

\* message && message.length <= maxLength: the empty string is falsy, so the
\* result for it is the (falsy) empty string itself
validateMessageLength(message, maxLength) ==
    message # <<>> /\ Len(message) <= maxLength

(***************************************************************************)
(* script.js: FormHandler                                                  *)
(***************************************************************************)
\* The validators the rule lists name
RunValidator(validator, value) ==
    CASE validator = "required" -> validateRequired(value)
      [] validator = "email" -> validateEmail(value)
      [] validator = "name" -> value = <<>> \/ Len(Trim(value)) >= 2
      [] validator = "phone" -> value = <<>> \/ validatePhone(value)
      [] validator = "messageLength" -> validateMessageLength(value, MaxMessageLength)

NoError == [cls |-> FALSE, msg |-> "", show |-> FALSE]

\* showError(fieldId, message) / clearError(fieldId) on the error state of one
\* field; the field and its error element are looked up with a guard each
showError(err, fieldId, message, miss) ==
    [ cls |-> IF fieldId \notin miss THEN TRUE ELSE err.cls,
      msg |-> IF (fieldId \o "-error") \notin miss THEN message ELSE err.msg,
      show |-> IF (fieldId \o "-error") \notin miss THEN TRUE ELSE err.show ]

clearError(err, fieldId, miss) ==
    [ cls |-> IF fieldId \notin miss THEN FALSE ELSE err.cls,
      msg |-> IF (fieldId \o "-error") \notin miss THEN "" ELSE err.msg,
      show |-> IF (fieldId \o "-error") \notin miss THEN FALSE ELSE err.show ]

RECURSIVE FirstFailing(_, _)
\* the loop of validateField: isValid and errorMessage as the loop leaves
\* them, and the rules whose validator it called, in call order
FirstFailing(value, rules) ==
    IF rules = <<>>
    THEN [isValid |-> TRUE, errorMessage |-> "", evaluated |-> <<>>]
    ELSE IF ~RunValidator(Head(rules).validator, value)
         THEN [isValid |-> FALSE, errorMessage |-> Head(rules).message,
               evaluated |-> <<Head(rules)>>]
         ELSE [FirstFailing(value, Tail(rules)) EXCEPT
                  !.evaluated = <<Head(rules)>> \o @]

validateField_NoBreak(errs, fieldId, value, rules, miss) ==
    LET failing == SelectSeq(rules, LAMBDA r : ~RunValidator(r.validator, value))
    IN  [ isValid |-> failing = <<>>,
          evaluated |-> rules,
          errors |-> [errs EXCEPT ![fieldId] =
                        IF failing = <<>> THEN clearError(@, fieldId, miss)
                        ELSE showError(@, fieldId, failing[Len(failing)].message, miss)] ]

\* validateField(fieldId, value, validationRules)
validateField(errs, fieldId, value, rules, miss) ==
    LET loop == FirstFailing(value, rules)
    IN  [ isValid |-> loop.isValid,
          evaluated |-> loop.evaluated,
          errors |-> [errs EXCEPT ![fieldId] =
                        IF loop.isValid THEN clearError(@, fieldId, miss)
                        ELSE showError(@, fieldId, loop.errorMessage, miss)] ]

LoginEmailRules ==
    << [validator |-> "required", message |-> "Email address is required"],
       [validator |-> "email", message |-> "Please enter a valid email address"] >>

validateLoginForm_RequiredOnly(errs, formData, miss) ==
    validateField(errs, "email", formData.email, SubSeq(LoginEmailRules, 1, 1), miss)

\* validateLoginForm(formData)
validateLoginForm(errs, formData, miss) ==
    validateField(errs, "email", formData.email, LoginEmailRules, miss)

ContactRules ==
    [ email |-> LoginEmailRules,
      name |-> << [validator |-> "name",
                   message |-> "Name must be at least 2 characters long"] >>,
      phone |-> << [validator |-> "phone",
                    message |-> "Please enter a valid phone number"] >>,
      reason |-> << [validator |-> "required",
                     message |-> "Please select a reason for contact"] >>,
      message |-> << [validator |-> "required", message |-> "Message is required"],
                     [validator |-> "messageLength",
                      message |-> "Message must be 2000 characters or less"] >> ]

validateContactForm_ShortCircuit(errs, formData, miss) ==
    LET e1 == validateField(errs, "contact-email", formData.email, ContactRules.email, miss)
        e2 == validateField(e1.errors, "contact-name", formData.name, ContactRules.name, miss)
        e3 == validateField(e2.errors, "contact-phone", formData.phone, ContactRules.phone, miss)
        e4 == validateField(e3.errors, "contact-reason", formData.reason, ContactRules.reason, miss)
        e5 == validateField(e4.errors, "contact-message", formData.message, ContactRules.message, miss)
    IN  IF ~e1.isValid THEN e1
        ELSE IF ~e2.isValid THEN e2
        ELSE IF ~e3.isValid THEN e3
        ELSE IF ~e4.isValid THEN e4
        ELSE e5

validateContactForm_NameRequired(errs, formData, miss) ==
    LET e1 == validateField(errs, "contact-email", formData.email, ContactRules.email, miss)
        e2 == validateField(e1.errors, "contact-name", formData.name,
                  << [validator |-> "required",
                      message |-> "Name must be at least 2 characters long"] >>, miss)
        e3 == validateField(e2.errors, "contact-phone", formData.phone, ContactRules.phone, miss)
        e4 == validateField(e3.errors, "contact-reason", formData.reason, ContactRules.reason, miss)
        e5 == validateField(e4.errors, "contact-message", formData.message, ContactRules.message, miss)
    IN  [ isValid |-> e1.isValid /\ e2.isValid /\ e3.isValid /\ e4.isValid /\ e5.isValid,
          errors |-> e5.errors ]

\* validateContactForm(formData): the five validateField calls run one after
\* the other, then their results are and-ed
validateContactForm(errs, formData, miss) ==
    LET e1 == validateField(errs, "contact-email", formData.email, ContactRules.email, miss)
        e2 == validateField(e1.errors, "contact-name", formData.name, ContactRules.name, miss)
        e3 == validateField(e2.errors, "contact-phone", formData.phone, ContactRules.phone, miss)
        e4 == validateField(e3.errors, "contact-reason", formData.reason, ContactRules.reason, miss)
        e5 == validateField(e4.errors, "contact-message", formData.message, ContactRules.message, miss)
    IN  [ isValid |-> e1.isValid /\ e2.isValid /\ e3.isValid /\ e4.isValid /\ e5.isValid,
          errors |-> e5.errors ]

(***************************************************************************)
(* script.js: the interaction controller.  Handlers are operators on the   *)
(* record u of the controller's state; miss is the set of element ids the  *)
(* page lacks.                                                             *)
(***************************************************************************)
ModalIds == {"contact-modal", "thank-you-modal"}

\* .modal-title element of each overlay and its text
ModalTitle ==
    ("contact-modal" :> [id |-> "contact-modal-title", text |-> "Contact Us"]) @@
    ("thank-you-modal" :> [id |-> "thank-you-modal-title", text |-> "Thank You!"])

\* the elements of each overlay that match the focusable selector, in
\* document order
ModalFocusables ==
    ("contact-modal" :> <<"close-contact-modal", "contact-email", "contact-name",
                          "contact-phone", "contact-reason", "contact-message",
                          "send-button">>) @@
    ("thank-you-modal" :> <<"ok-button">>)

focusableElements(modalId, miss) ==
    SelectSeq(ModalFocusables[modalId], LAMBDA e : e \notin miss)

ContactFields == {"contact-email", "contact-name", "contact-phone",
                  "contact-reason", "contact-message"}

FormFields == {"email"} \cup ContactFields

AnnounceDelay == 1000
LoginRevertDelay == 2000
ThankYouDelay == 300

\* id of a node no pending announcement uses
FreshNode(anns) ==
    CHOOSE n \in 1..(Len(anns) + 1) : \A i \in 1..Len(anns) : anns[i].id # n

announceToScreenReader_SharedNode(u, message) ==
    [u EXCEPT !.announcements = Append(@, [id |-> 1, text |-> message]),
              !.timers = Append(@, [kind |-> "removeAnnouncement",
                                    delay |-> AnnounceDelay, data |-> 1])]

\* AccessibilityUtils.announceToScreenReader(message)
announceToScreenReader(u, message) ==
    LET node == FreshNode(u.announcements)
    IN  [u EXCEPT !.announcements = Append(@, [id |-> node, text |-> message]),
                  !.timers = Append(@, [kind |-> "removeAnnouncement",
                                        delay |-> AnnounceDelay, data |-> node])]

\* AccessibilityUtils.setFocusManagement(modal)
setFocusManagement(u, modalId, miss) ==
    IF focusableElements(modalId, miss) # <<>>
    THEN [u EXCEPT !.activeElement = focusableElements(modalId, miss)[1]]
    ELSE u

\* AccessibilityUtils.trapFocus(element): one more keydown listener
trapFocus(u, modalId) == [u EXCEPT !.trapCount[modalId] = @ + 1]

\* position of element e in seq, 0 when it is not in it
IndexOf(seq, e) ==
    IF \E i \in 1..Len(seq) : seq[i] = e
    THEN CHOOSE i \in 1..Len(seq) : seq[i] = e
    ELSE 0

trapFocusKeydown_NoPrevent(e, modalId, shiftKey, miss) ==
    LET focusable == focusableElements(modalId, miss)
        firstElement == IF focusable # <<>> THEN focusable[1] ELSE "undefined"
        lastElement == IF focusable # <<>> THEN focusable[Len(focusable)] ELSE "undefined"
    IN  IF shiftKey
        THEN IF e.activeElement = firstElement
             THEN [e EXCEPT !.activeElement = lastElement] ELSE e
        ELSE IF e.activeElement = lastElement
             THEN [e EXCEPT !.activeElement = firstElement] ELSE e

\* the keydown listener trapFocus installs on a modal, for key 'Tab'; e is
\* the event in flight: document.activeElement and whether a listener has
\* called preventDefault
trapFocusKeydown(e, modalId, shiftKey, miss) ==
    LET focusable == focusableElements(modalId, miss)
        firstElement == IF focusable # <<>> THEN focusable[1] ELSE "undefined"
        lastElement == IF focusable # <<>> THEN focusable[Len(focusable)] ELSE "undefined"
    IN  IF shiftKey
        THEN IF e.activeElement = firstElement
             THEN [activeElement |-> lastElement, defaultPrevented |-> TRUE] ELSE e
        ELSE IF e.activeElement = lastElement
             THEN [activeElement |-> firstElement, defaultPrevented |-> TRUE] ELSE e

RECURSIVE DispatchTab(_, _, _, _, _)
\* the n listeners installed on the modal run one after the other
DispatchTab(e, modalId, shiftKey, miss, n) ==
    IF n = 0 THEN e
    ELSE DispatchTab(trapFocusKeydown(e, modalId, shiftKey, miss),
                     modalId, shiftKey, miss, n - 1)

\* the elements sequential focus navigation visits, in document order
TabOrder(miss) ==
    SelectSeq(<<"email", "keep-signed-in", "next-button", "need-help-link">>
                  \o ModalFocusables["contact-modal"]
                  \o ModalFocusables["thank-you-modal"],
              LAMBDA x : x \notin miss)

\* the browser's default action for Tab / Shift+Tab: focus moves one element
\* along the tab order, and off the document past either end
defaultTab(u, shiftKey, miss) ==
    LET order == TabOrder(miss)
        p == IndexOf(order, u.activeElement)
        q == IF shiftKey THEN (IF p = 0 THEN Len(order) ELSE p - 1) ELSE p + 1
    IN  [u EXCEPT !.activeElement = IF q \in 1..Len(order) THEN order[q] ELSE "body"]

\* keydown with key 'Tab': the listeners of the modal that holds the focused
\* element, then the default action unless one of them prevented it
keydownTab(u, shiftKey, miss) ==
    LET inside == {m \in ModalIds \ miss :
                     IndexOf(ModalFocusables[m], u.activeElement) > 0}
        pressed == [activeElement |-> u.activeElement, defaultPrevented |-> FALSE]
        handled == IF inside = {} THEN pressed
                   ELSE LET m == CHOOSE m \in inside : TRUE
                        IN  DispatchTab(pressed, m, shiftKey, miss, u.trapCount[m])
        moved == [u EXCEPT !.activeElement = handled.activeElement]
    IN  IF handled.defaultPrevented THEN moved ELSE defaultTab(moved, shiftKey, miss)

SetOpenFlag(appState, modalId, flag) ==
    IF modalId = "contact-modal" THEN [appState EXCEPT !.isContactModalOpen = flag]
    ELSE IF modalId = "thank-you-modal" THEN [appState EXCEPT !.isThankYouModalOpen = flag]
    ELSE appState

openModal_NoCapture(u, modalId, miss) ==
    IF modalId \in miss \/ modalId \notin ModalIds THEN u
    ELSE LET shown == [u EXCEPT
                 !.modals[modalId] = [active |-> TRUE, ariaHidden |-> "false"],
                 !.bodyOverflow = "hidden"]
             flagged == [trapFocus(setFocusManagement(shown, modalId, miss), modalId)
                            EXCEPT !.AppState = SetOpenFlag(@, modalId, TRUE)]
         IN  IF ModalTitle[modalId].id \notin miss
             THEN announceToScreenReader(flagged,
                      ModalTitle[modalId].text \o " dialog opened")
             ELSE flagged

\* ModalManager.openModal(modalId)
openModal(u, modalId, miss) ==
    IF modalId \in miss \/ modalId \notin ModalIds THEN u
    ELSE LET captured == [u EXCEPT
                 !.AppState.currentFocusedElement = u.activeElement,
                 !.modals[modalId] = [active |-> TRUE, ariaHidden |-> "false"],
                 !.bodyOverflow = "hidden"]
             flagged == [trapFocus(setFocusManagement(captured, modalId, miss), modalId)
                            EXCEPT !.AppState = SetOpenFlag(@, modalId, TRUE)]
         IN  IF ModalTitle[modalId].id \notin miss
             THEN announceToScreenReader(flagged,
                      ModalTitle[modalId].text \o " dialog opened")
             ELSE flagged

closeModal_KeepCapture(u, modalId, miss) ==
    IF modalId \in miss \/ modalId \notin ModalIds THEN u
    ELSE LET hidden == [u EXCEPT
                 !.modals[modalId] = [active |-> FALSE, ariaHidden |-> "true"],
                 !.bodyOverflow = ""]
             restored == IF hidden.AppState.currentFocusedElement # "null"
                         THEN [hidden EXCEPT
                                 !.activeElement = hidden.AppState.currentFocusedElement]
                         ELSE hidden
             flagged == [restored EXCEPT !.AppState = SetOpenFlag(@, modalId, FALSE)]
         IN  announceToScreenReader(flagged, "Dialog closed")

\* ModalManager.closeModal(modalId); element.focus() moves document.activeElement
\* to the element, and "body" stands for a page with no element focused
closeModal(u, modalId, miss) ==
    IF modalId \in miss \/ modalId \notin ModalIds THEN u
    ELSE LET hidden == [u EXCEPT
                 !.modals[modalId] = [active |-> FALSE, ariaHidden |-> "true"],
                 !.bodyOverflow = ""]
             restored == IF hidden.AppState.currentFocusedElement # "null"
                         THEN [hidden EXCEPT
                                 !.activeElement = hidden.AppState.currentFocusedElement,
                                 !.AppState.currentFocusedElement = "null"]
                         ELSE hidden
             flagged == [restored EXCEPT !.AppState = SetOpenFlag(@, modalId, FALSE)]
         IN  announceToScreenReader(flagged, "Dialog closed")

closeAllModals_KeepFlags(u, miss) ==
    [u EXCEPT
        !.modals = [m \in ModalIds |->
                      IF m \notin miss THEN [active |-> FALSE, ariaHidden |-> "true"]
                      ELSE @[m]],
        !.bodyOverflow = ""]

closeAllModals_Announce(u, miss) ==
    announceToScreenReader(
        [u EXCEPT
            !.modals = [m \in ModalIds |->
                          IF m \notin miss THEN [active |-> FALSE, ariaHidden |-> "true"]
                          ELSE @[m]],
            !.bodyOverflow = "",
            !.AppState.isContactModalOpen = FALSE,
            !.AppState.isThankYouModalOpen = FALSE], "Dialog closed")

\* ModalManager.closeAllModals(): every .modal-overlay element is hidden
closeAllModals(u, miss) ==
    [u EXCEPT
        !.modals = [m \in ModalIds |->
                      IF m \notin miss THEN [active |-> FALSE, ariaHidden |-> "true"]
                      ELSE @[m]],
        !.bodyOverflow = "",
        !.AppState.isContactModalOpen = FALSE,
        !.AppState.isThankYouModalOpen = FALSE]

(***************************************************************************)
(* script.js: EventListeners                                               *)
(***************************************************************************)
\* EventListeners.handleLoginSuccess(): the revert timer carries originalText,
\* the span text read when this call ran
handleLoginSuccess(u, miss) ==
    LET announced == announceToScreenReader(u, "Login successful")
    IN  IF "next-button" \in miss THEN announced
        ELSE IF "next-button span" \in miss THEN [announced EXCEPT !.thrown = TRUE]
        ELSE [announced EXCEPT
                !.nextButton = [text |-> "Success!", bg |-> "var(--success-green)"],
                !.timers = Append(@, [kind |-> "revertButton", delay |-> LoginRevertDelay,
                                      data |-> u.nextButton.text])]

handleContactSubmit_NoTimer(u, formData, miss) ==
    LET closed == closeModal(u, "contact-modal", miss)
        reset == IF "contact-form" \notin miss
                 THEN [closed EXCEPT !.errors =
                         [f \in FormFields |-> IF f \in ContactFields THEN NoError ELSE @[f]]]
                 ELSE closed
    IN  IF "char-count" \notin miss
        THEN [reset EXCEPT !.charCount = [text |-> "0/2000",
                                          color |-> "var(--secondary-gray)"]]
        ELSE reset

\* EventListeners.handleContactSubmit(formData)
handleContactSubmit(u, formData, miss) ==
    LET closed == closeModal(u, "contact-modal", miss)
        timed == [closed EXCEPT !.timers =
                    Append(@, [kind |-> "openThankYou", delay |-> ThankYouDelay,
                               data |-> 0])]
        reset == IF "contact-form" \notin miss
                 THEN [timed EXCEPT !.errors =
                         [f \in FormFields |-> IF f \in ContactFields THEN NoError ELSE @[f]]]
                 ELSE timed
    IN  IF "char-count" \notin miss
        THEN [reset EXCEPT !.charCount = [text |-> "0/2000",
                                          color |-> "var(--secondary-gray)"]]
        ELSE reset

\* the submit listener of #login-form; reading .value of a missing #email or
\* .checked of a missing #keep-signed-in raises
loginSubmit(u, email, miss) ==
    IF {"email", "keep-signed-in"} \cap miss # {} THEN [u EXCEPT !.thrown = TRUE]
    ELSE LET v == validateLoginForm(u.errors, [email |-> email], miss)
             validated == [u EXCEPT !.errors = v.errors]
         IN  IF v.isValid THEN handleLoginSuccess(validated, miss) ELSE validated

\* the submit listener of #contact-form
contactSubmit(u, formData, miss) ==
    IF ContactFields \cap miss # {} THEN [u EXCEPT !.thrown = TRUE]
    ELSE LET v == validateContactForm(u.errors, formData, miss)
             validated == [u EXCEPT !.errors = v.errors]
         IN  IF v.isValid THEN handleContactSubmit(validated, formData, miss)
             ELSE validated

keydownEscape_ThankYouFirst(u, miss) ==
    IF u.AppState.isThankYouModalOpen THEN closeModal(u, "thank-you-modal", miss)
    ELSE IF u.AppState.isContactModalOpen THEN closeModal(u, "contact-modal", miss)
    ELSE u

\* the document keydown listener, for e.key === 'Escape'
keydownEscape(u, miss) ==
    IF u.AppState.isContactModalOpen THEN closeModal(u, "contact-modal", miss)
    ELSE IF u.AppState.isThankYouModalOpen THEN closeModal(u, "thank-you-modal", miss)
    ELSE u

\* the ModalManager call the Escape listener makes in state u
EscapeCall(u) ==
    IF u.AppState.isContactModalOpen THEN <<"closeModal", "contact-modal">>
    ELSE IF u.AppState.isThankYouModalOpen THEN <<"closeModal", "thank-you-modal">>
    ELSE <<"none", "">>

\* A pending timer may fire when no timer created before it has a delay that
\* is not longer: equal delays fire in creation order
MayFire(tm, i) == \A j \in 1..(i - 1) : tm[j].delay > tm[i].delay

RemoveAt(seq, i) == SubSeq(seq, 1, i - 1) \o SubSeq(seq, i + 1, Len(seq))

\* the callback of timer t
timerCallback(u, t, miss) ==
    CASE t.kind = "removeAnnouncement" ->
            \* document.body.removeChild(announcement) throws for a node that
            \* is not a child of the body
            IF \E k \in 1..Len(u.announcements) : u.announcements[k].id = t.data
            THEN [u EXCEPT !.announcements = SelectSeq(@, LAMBDA a : a.id # t.data)]
            ELSE [u EXCEPT !.thrown = TRUE]
      [] t.kind = "revertButton" ->
            [u EXCEPT !.nextButton = [text |-> t.data, bg |-> ""]]
      [] t.kind = "openThankYou" -> openModal(u, "thank-you-modal", miss)

(***************************************************************************)
(* Pages, inputs and initial states                                        *)
(***************************************************************************)
UIElements ==
    ModalIds \cup FormFields \cup {f \o "-error" : f \in FormFields} \cup
    { "contact-modal-title", "thank-you-modal-title", "close-contact-modal",
      "send-button", "ok-button", "need-help-link", "login-form", "contact-form",
      "keep-signed-in", "next-button", "next-button span", "char-count" }

AllElements == UIElements \cup BrandElements

\* Pages SpecBrand starts from: the full markup less any of these elements
BrandOptional == {"company-logo", "ok-button span", "script[type=ld+json]"}
BrandPages == SUBSET BrandOptional

\* Pages the interaction specifications start from: the full markup, and the
\* markup less one of these elements
UIOptional == {"thank-you-modal"}
UIPages == {{}} \cup {{e} : e \in UIOptional}

\* Identifiers handed to setBrand and found in the query string
BrandNames == getAvailableBrands \cup {"nonexistent", "constructor", "__proto__"}
SearchValues == {"(null)", "", "neutral", "nonexistent", "constructor"}

CustomColors == { <<"#","0","5","9","6","6","9">>, <<"#","f","f","f","f","f","f">> }
CustomLogos == {"", "path/to/your/logo.png"}
CustomNames == {"Custom Brand", "Acme Air"}

Stylesheet == <<"(stylesheet)">>

MarkupPage(miss) ==
    [ logoSrc |-> "(markup)",
      logoAlt |-> "(markup)",
      text |-> [e \in TextElements |-> "(markup)"],
      placeholder |-> "(markup)",
      options |-> <<[value |-> "", text |-> "(markup)"]>>,
      title |-> "(markup)",
      meta |-> "(markup)",
      css |-> [k \in DOMAIN updateColors(Stylesheet, Stylesheet) |-> Stylesheet],
      ld |-> [ exists |-> "script[type=ld+json]" \notin miss,
               data |-> [ name |-> "(markup)", description |-> "(markup)",
                          publisher |-> "(markup)", url |-> "(markup)" ] ],
      scriptsCreated |-> 0 ]

InitBrandVars ==
    /\ currentBrand = "greenheck"
    /\ page = MarkupPage(missing)

\* the controller after the DOMContentLoaded listener of script.js has run:
\* listeners wired, 'Login page loaded' announced
InitUIVars ==
    /\ AppState = [ isContactModalOpen |-> FALSE, isThankYouModalOpen |-> FALSE,
                    currentFocusedElement |-> "null" ]
    /\ modals = [m \in ModalIds |-> [active |-> FALSE, ariaHidden |-> "true"]]
    /\ bodyOverflow = ""
    /\ activeElement = "body"
    /\ announcements = <<[id |-> 1, text |-> "Login page loaded"]>>
    /\ timers = <<[kind |-> "removeAnnouncement", delay |-> AnnounceDelay, data |-> 1]>>
    /\ nextButton = [text |-> "Next", bg |-> ""]
    /\ errors = [f \in FormFields |-> NoError]
    /\ trapCount = [m \in ModalIds |-> 0]
    /\ charCount = [text |-> "0/2000", color |-> "(stylesheet)"]

InitValVars ==
    /\ vin = [fn |-> "none"]
    /\ vout = FALSE

NoCall == <<"none", "">>
NoOpened == <<"", "">>
ApiOps == {"openModal", "closeModal", "closeAllModals"}

InitHist ==
    hist = [ op |-> "load", arg |-> "", call |-> NoCall, focus |-> "body",
             opened |-> NoOpened,
             pre |-> [currentBrand |-> currentBrand] ]

\* the controller's state as one record, and back
U ==
    [ AppState |-> AppState, modals |-> modals, bodyOverflow |-> bodyOverflow,
      activeElement |-> activeElement, timers |-> timers,
      announcements |-> announcements, nextButton |-> nextButton,
      errors |-> errors, trapCount |-> trapCount, charCount |-> charCount,
      thrown |-> FALSE ]

\* one step of the controller: handler result u2, and the record of the step
Commit(u2, op, arg, call) ==
    /\ AppState' = u2.AppState
    /\ modals' = u2.modals
    /\ bodyOverflow' = u2.bodyOverflow
    /\ activeElement' = u2.activeElement
    /\ timers' = u2.timers
    /\ announcements' = u2.announcements
    /\ nextButton' = u2.nextButton
    /\ errors' = u2.errors
    /\ trapCount' = u2.trapCount
    /\ charCount' = u2.charCount
    /\ thrown' = u2.thrown
    /\ hist' = [ op |-> op, arg |-> arg, call |-> call, focus |-> activeElement,
                 opened |-> IF op \in ApiOps /\ hist.call[1] = "openModal"
                            THEN <<hist.call[2], hist.focus>> ELSE NoOpened,
                 pre |-> hist.pre ]
    /\ UNCHANGED <<missing, search, currentBrand, page, vin, vout>>

\* one call of a window.BrandConfig entry point with result st2
CommitBrand(st2, op, arg) ==
    /\ currentBrand' = st2.currentBrand
    /\ page' = st2.page
    /\ thrown' = st2.thrown
    /\ hist' = [hist EXCEPT !.op = op, !.arg = arg,
                            !.pre = [currentBrand |-> currentBrand, page |-> page]]
    /\ UNCHANGED <<missing, search, vin, vout>>
    /\ UNCHANGED uiVars

BrandState == [currentBrand |-> currentBrand, page |-> page]

(***************************************************************************)
(* SpecBrand: calls of the entry points exported as window.BrandConfig     *)
(***************************************************************************)
SetBrand(brandName) ==
    /\ brandName \in BrandNames
    /\ CommitBrand(setBrand(BrandState, brandName, missing), "setBrand", brandName)

SetCustomBrand(primaryColor, secondaryColor, logoPath, brandName) ==
    /\ brandName \in CustomNames
    /\ CommitBrand(setCustomBrand(BrandState, primaryColor, secondaryColor, logoPath,
                                  brandName, missing),
                   "setCustomBrand", brandName)

UpdateColors(primaryColor, secondaryColor) ==
    /\ primaryColor \in CustomColors
    /\ CommitBrand([ currentBrand |-> currentBrand,
                     page |-> [page EXCEPT
                                 !.css = updateColors(primaryColor, secondaryColor)],
                     thrown |-> FALSE ],
                   "updateColors", "")

InitializeConfig ==
    /\ search \in SearchValues
    /\ CommitBrand(initializeConfig(BrandState, search, missing),
                   "initializeConfig", search)

InitBrand ==
    /\ missing \in BrandPages
    /\ search \in SearchValues
    /\ thrown = FALSE
    /\ InitBrandVars
    /\ InitUIVars
    /\ InitValVars
    /\ InitHist

NextBrand ==
    \/ \E b \in BrandNames : SetBrand(b)
    \/ \E c \in CustomColors, l \in CustomLogos, n \in CustomNames :
          SetCustomBrand(c, BRAND_CONFIGS.neutral.secondaryColor, l, n)
    \/ \E c \in CustomColors : UpdateColors(c, BRAND_CONFIGS.greenheck.secondaryColor)
    \/ InitializeConfig

SpecBrand == InitBrand /\ [][NextBrand]_vars

\* C1: for every identifier that is not a key listed by getAvailableBrands(),
\* setBrand(id) leaves the active brand and the value of getCurrentBrandConfig()
\* as they were, re-renders nothing and raises no exception.
C1_UnknownBrandIsNoOp ==
    (hist.op = "setBrand" /\ hist.arg \notin getAvailableBrands) =>
        /\ currentBrand = hist.pre.currentBrand
        /\ getCurrentBrandConfig(currentBrand) = getCurrentBrandConfig(hist.pre.currentBrand)
        /\ page = hist.pre.page
        /\ ~thrown

\* C2: for every registered brand id and from any prior state, setBrand(id)
\* followed by getCurrentBrandConfig() yields the configuration record
\* registered under id.
C2_SetBrandSelectsRecord ==
    (hist.op = "setBrand" /\ hist.arg \in getAvailableBrands) =>
        /\ getCurrentBrandConfig(currentBrand).kind = "config"
        /\ BRAND_CONFIGS[getCurrentBrandConfig(currentBrand).key] = BRAND_CONFIGS[hist.arg]

\* C2 witness: setBrand("neutral") has run from a state whose active brand was
\* not a registered one
C2_Witness ==
    /\ hist.op = "setBrand"
    /\ hist.arg = "neutral"
    /\ hist.pre.currentBrand \notin getAvailableBrands
    /\ currentBrand = "neutral"

(***************************************************************************)
(* SpecUI: the wired DOM events and the timers they start.                 *)
(* SpecApi: direct calls of window.LoginSystem.ModalManager instead.       *)
(***************************************************************************)
PendingThankYou == Len(SelectSeq(timers, LAMBDA t : t.kind = "openThankYou"))

\* click on #need-help-link
ClickNeedHelp ==
    /\ "need-help-link" \notin missing
    /\ Len(timers) < MaxTimers
    /\ trapCount["contact-modal"] < MaxOpens
    /\ Commit(openModal(U, "contact-modal", missing), "clickNeedHelp", "",
              <<"openModal", "contact-modal">>)

\* click on #close-contact-modal
ClickCloseContact ==
    /\ "close-contact-modal" \notin missing
    /\ Len(timers) < MaxTimers
    /\ Commit(closeModal(U, "contact-modal", missing), "clickCloseContact", "",
              <<"closeModal", "contact-modal">>)

\* click on #ok-button
ClickOk ==
    /\ "ok-button" \notin missing
    /\ Len(timers) < MaxTimers
    /\ Commit(closeModal(U, "thank-you-modal", missing), "clickOk", "",
              <<"closeModal", "thank-you-modal">>)

\* click whose target is the overlay element itself
ClickOverlay(modalId) ==
    /\ modalId \notin missing
    /\ Len(timers) < MaxTimers
    /\ Commit(closeModal(U, modalId, missing), "clickOverlay", modalId,
              <<"closeModal", modalId>>)

\* keydown with key 'Escape'
KeyEscape ==
    /\ Len(timers) < MaxTimers
    /\ Commit(keydownEscape(U, missing), "keyEscape", "", EscapeCall(U))

\* the user moves keyboard focus to an element of the page
UserFocus(e) ==
    /\ e \notin missing
    /\ e # activeElement
    /\ Commit([U EXCEPT !.activeElement = e], "focus", e, NoCall)

\* submit of #login-form with the value typed into #email
SubmitLogin(email) ==
    /\ "login-form" \notin missing
    /\ Len(timers) < MaxTimers
    /\ Commit(loginSubmit(U, email, missing), "submitLogin", email, NoCall)

\* submit of #contact-form with the values typed into its fields
SubmitContact(formData) ==
    /\ "contact-form" \notin missing
    /\ Len(timers) < MaxTimers
    /\ trapCount["thank-you-modal"] + PendingThankYou < MaxOpens
    /\ Commit(contactSubmit(U, formData, missing), "submitContact", formData,
              IF ContactFields \cap missing = {}
                 /\ validateContactForm(errors, formData, missing).isValid
              THEN <<"closeModal", "contact-modal">> ELSE NoCall)

\* a pending timer fires
FireTimer(i) ==
    /\ i \in 1..Len(timers)
    /\ MayFire(timers, i)
    /\ Commit(timerCallback([U EXCEPT !.timers = RemoveAt(@, i)], timers[i], missing),
              "timer", timers[i].kind,
              IF timers[i].kind = "openThankYou"
              THEN <<"openModal", "thank-you-modal">> ELSE NoCall)

\* keydown with key 'Tab', with or without Shift
KeyTab(shiftKey) ==
    /\ shiftKey \in BOOLEAN
    /\ Commit(keydownTab(U, shiftKey, missing), "keyTab",
              IF shiftKey THEN "Shift+Tab" ELSE "Tab", NoCall)

\* direct calls of the exported ModalManager
ApiOpenModal(modalId) ==
    /\ Len(timers) < MaxTimers
    /\ modalId \in ModalIds => trapCount[modalId] < MaxOpens
    /\ Commit(openModal(U, modalId, missing), "openModal", modalId,
              <<"openModal", modalId>>)

ApiCloseModal(modalId) ==
    /\ Len(timers) < MaxTimers
    /\ Commit(closeModal(U, modalId, missing), "closeModal", modalId,
              <<"closeModal", modalId>>)

ApiCloseAllModals ==
    /\ TRUE
    /\ Commit(closeAllModals(U, missing), "closeAllModals", "",
              <<"closeAllModals", "">>)

\* values typed into the forms
S_empty == <<>>
S_blank == <<" ">>
S_a == <<"a">>
S_ab == <<"a", "b">>
S_paddedA == <<" ", "a", " ">>
S_noDot == <<"a", "@", "b">>
S_email == <<"a", "@", "b", ".", "c">>
S_spacedEmail == <<"a", " ", "@", "b", ".", "c">>
S_paddedEmail == <<" ", "a", "@", "b", ".", "c">>
S_phone == <<"(", "8", "5", "5", ")", " ", "8", "8", "6", "-", "8", "3", "2", "4">>
S_zeroPhone == <<"0", "1">>
S_billing == <<"b", "i", "l", "l", "i", "n", "g">>

Repeat(c, n) == [i \in 1..n |-> c]

LoginEmails ==
    {S_empty, S_blank, S_a, S_noDot, S_email, S_spacedEmail, S_paddedEmail}

PageFocusables == {"email", "need-help-link", "next-button"}

\* the forms the interaction specifications submit: one that passes and two
\* that do not
ValidForm ==
    [ email |-> S_email, name |-> S_empty, phone |-> S_empty,
      reason |-> S_billing, message |-> S_a ]
FewForms ==
    { ValidForm,
      [ValidForm EXCEPT !.reason = S_empty, !.message = S_empty],
      [ValidForm EXCEPT !.email = S_noDot] }

InitUI ==
    /\ missing \in UIPages
    /\ search = "(null)"
    /\ thrown = FALSE
    /\ InitBrandVars
    /\ InitUIVars
    /\ InitValVars
    /\ InitHist

NextUI ==
    \/ ClickNeedHelp
    \/ ClickCloseContact
    \/ ClickOk
    \/ \E m \in ModalIds : ClickOverlay(m)
    \/ KeyEscape
    \/ \E e \in PageFocusables : UserFocus(e)
    \/ \E fd \in FewForms : SubmitContact(fd)
    \/ \E i \in 1..MaxTimers + 2 : FireTimer(i)

SpecUI == InitUI /\ [][NextUI]_vars

NextApi ==
    \/ \E e \in PageFocusables : UserFocus(e)
    \/ \E i \in 1..MaxTimers + 2 : FireTimer(i)
    \/ \E m \in ModalIds \cup {"no-such-modal"} : ApiOpenModal(m)
    \/ \E m \in ModalIds \cup {"no-such-modal"} : ApiCloseModal(m)
    \/ ApiCloseAllModals

SpecApi == InitUI /\ [][NextApi]_vars

(***************************************************************************)
(* SpecLogin: submissions of the login form and the timers they start      *)
(***************************************************************************)
NextLogin ==
    \/ \E email \in LoginEmails : SubmitLogin(email)
    \/ \E i \in 1..MaxTimers + 2 : FireTimer(i)

SpecLogin == InitUI /\ [][NextLogin]_vars

(***************************************************************************)
(* SpecForm: submissions of the contact form and the timers they start     *)
(***************************************************************************)
ContactEmails == {S_empty, S_noDot, S_email}
ContactNames == {S_empty, S_paddedA, S_ab}
ContactPhones == {S_empty, S_zeroPhone, S_phone}
ContactReasons == {S_empty, S_billing}
ContactMessages == {S_empty, S_blank, S_a}

\* messages at the length cap and one character over it
LongMessages == {Repeat("a", MaxMessageLength), Repeat("a", MaxMessageLength + 1)}

\* every combination of the short values, and the long messages in a form that
\* is otherwise valid and in one that is otherwise invalid in every field
AllForms ==
    [ email : ContactEmails, name : ContactNames, phone : ContactPhones,
      reason : ContactReasons, message : ContactMessages ]
    \cup { [f EXCEPT !.message = m] :
             f \in { ValidForm,
                     [ email |-> S_noDot, name |-> S_paddedA, phone |-> S_zeroPhone,
                       reason |-> S_empty, message |-> S_empty ] },
             m \in LongMessages }

NextForm ==
    \/ \E fd \in AllForms : SubmitContact(fd)
    \/ \E i \in 1..MaxTimers + 2 : FireTimer(i)

InitForm ==
    /\ InitUI
    /\ missing = {}

SpecForm == InitForm /\ [][NextForm]_vars

(***************************************************************************)
(* Properties of the modal manager, checked under SpecApi                  *)
(***************************************************************************)
\* C3: for either modal whose element exists, openModal(id) immediately
\* followed by closeModal(id) leaves keyboard focus on the element that had
\* focus immediately before openModal was called.
C3_FocusRestoredAfterOpenClose ==
    \A id \in ModalIds :
        (/\ hist.op = "closeModal" /\ hist.arg = id
         /\ hist.opened[1] = id
         /\ id \notin missing) => activeElement = hist.opened[2]

\* the thank-you modal was opened from the help link and closed at once
C3_Witness ==
    /\ hist.op = "closeModal" /\ hist.arg = "thank-you-modal"
    /\ hist.opened = <<"thank-you-modal", "need-help-link">>
    /\ "thank-you-modal" \notin missing
    /\ activeElement = "need-help-link"
    /\ ~AppState.isThankYouModalOpen

(***************************************************************************)
(* SpecSubmit: the events that open and close modals, on the full page,    *)
(* with the event loop's guarantee that pending timers do not wait for     *)
(* ever: some callback that is due is eventually run                       *)
(***************************************************************************)
NextSubmit ==
    \/ ClickNeedHelp
    \/ ClickCloseContact
    \/ ClickOk
    \/ \E m \in ModalIds : ClickOverlay(m)
    \/ KeyEscape
    \/ \E fd \in FewForms : SubmitContact(fd)
    \/ \E i \in 1..MaxTimers + 2 : FireTimer(i)

TimersFire == WF_vars(\E i \in 1..MaxTimers + 2 : FireTimer(i))

SpecSubmit == InitForm /\ [][NextSubmit]_vars /\ TimersFire

\* the last step was a contact submission that passed validation
SubmittedValid ==
    hist.op = "submitContact" /\ hist.call = <<"closeModal", "contact-modal">>

\* the last step ran the callback of a 300ms timer and the thank-you modal is open
ThankYouFired ==
    /\ hist.op = "timer" /\ hist.arg = "openThankYou"
    /\ AppState.isThankYouModalOpen

\* C4: after a contact-form submission that passes validation the contact
\* modal is closed at once (isContactModalOpen is false), and the thank-you
\* modal is eventually opened when the 300ms timer fires (isThankYouModalOpen
\* becomes true) whatever user events are interleaved before it fires; the
\* timer is never cancelled: a pending 300ms timer leaves the timer list only
\* by firing, one at a time.
C4_ThankYouFollowsSubmit ==
    /\ [](SubmittedValid => ~AppState.isContactModalOpen /\ PendingThankYou > 0)
    /\ [][PendingThankYou' < PendingThankYou =>
            /\ PendingThankYou' = PendingThankYou - 1
            /\ ThankYouFired']_vars
    /\ [](PendingThankYou > 0 => <>ThankYouFired)

\* the contact modal was opened again before the 300ms timer fired
C4_Witness ==
    /\ ThankYouFired
    /\ AppState.isContactModalOpen
    /\ modals["thank-you-modal"].active
    /\ PendingThankYou = 0

(***************************************************************************)
(* Properties of the login form, checked under SpecLogin                   *)
(***************************************************************************)
\* the error state of a field that shows message, of one that shows none
FieldError(message) ==
    IF message = "" THEN NoError ELSE [cls |-> TRUE, msg |-> message, show |-> TRUE]

PendingRevert == Len(SelectSeq(timers, LAMBDA t : t.kind = "revertButton"))

\* C5: the "Success!" label of the login button is transient: after any
\* number of successful login submissions, made at any times relative to each
\* other, once every pending 2000ms timer has fired the button label is again
\* the label it had before the first submission ("Next" on the loaded page)
\* and its background colour override is cleared.
C5_SuccessLabelIsTransient ==
    PendingRevert = 0 => nextButton = [text |-> "Next", bg |-> ""]

\* C9: the login submit handler calls handleLoginSuccess (success
\* announcement, "Success!" label, 2000ms timer) exactly when the email value
\* is non-empty after trimming and email-shaped; an empty email reports
\* "Email address is required", a non-empty malformed one reports "Please
\* enter a valid email address", and in both failing cases no success
\* announcement or button change happens.
C9_LoginProceedsIffEmailValid ==
    [][hist'.op = "submitLogin" =>
        IF Trim(hist'.arg) # <<>> /\ validateEmail(hist'.arg)
        THEN /\ announcements'[Len(announcements')].text = "Login successful"
             /\ Len(announcements') = Len(announcements) + 1
             /\ nextButton'.text = "Success!"
             /\ PendingRevert' = PendingRevert + 1
             /\ errors'["email"] = NoError
        ELSE /\ errors'["email"] =
                    FieldError(IF Trim(hist'.arg) = <<>>
                               THEN "Email address is required"
                               ELSE "Please enter a valid email address")
             /\ UNCHANGED <<nextButton, announcements, timers>>]_vars

\* an address with a leading blank, non-empty once trimmed but not
\* email-shaped, was refused and the button left alone
C9_Witness ==
    /\ hist.op = "submitLogin" /\ hist.arg = S_paddedEmail
    /\ errors["email"].msg = "Please enter a valid email address"
    /\ nextButton = [text |-> "Next", bg |-> ""]
    /\ PendingRevert = 0

(***************************************************************************)
(* Properties of the keyboard listener, checked under SpecUI               *)
(***************************************************************************)
\* C6: an Escape key press closes the modal that AppState reports open: if
\* isContactModalOpen is true it closes the contact modal only (also when
\* isThankYouModalOpen is true as well), otherwise if isThankYouModalOpen is
\* true it closes the thank-you modal, and if neither flag is true it changes
\* no state and emits no announcement.
C6_EscapeClosesReportedModal ==
    [][hist'.op = "keyEscape" =>
        IF AppState.isContactModalOpen
        THEN /\ ~AppState'.isContactModalOpen
             /\ ~modals'["contact-modal"].active
             /\ AppState'.isThankYouModalOpen = AppState.isThankYouModalOpen
             /\ modals'["thank-you-modal"] = modals["thank-you-modal"]
             /\ Len(announcements') = Len(announcements) + 1
        ELSE IF AppState.isThankYouModalOpen
        THEN /\ ~AppState'.isThankYouModalOpen
             /\ ~modals'["thank-you-modal"].active
             /\ ~AppState'.isContactModalOpen
             /\ modals'["contact-modal"] = modals["contact-modal"]
             /\ Len(announcements') = Len(announcements) + 1
        ELSE UNCHANGED <<uiVars, brandVars, thrown>>]_vars

\* Escape was pressed with both modals open and closed the contact modal only
C6_Witness ==
    /\ hist.op = "keyEscape"
    /\ hist.call = <<"closeModal", "contact-modal">>
    /\ ~AppState.isContactModalOpen /\ ~modals["contact-modal"].active
    /\ AppState.isThankYouModalOpen /\ modals["thank-you-modal"].active

(***************************************************************************)
(* Properties of the contact form, checked under SpecForm                  *)
(***************************************************************************)
\* the five conditions on the fields of a contact form
EmailAccepted(fd) == fd.email # <<>> /\ validateEmail(fd.email)
NameAccepted(fd) == fd.name = <<>> \/ Len(Trim(fd.name)) >= 2
PhoneAccepted(fd) == fd.phone = <<>> \/ validatePhone(fd.phone)
ReasonAccepted(fd) == fd.reason # <<>>
MessageAccepted(fd) == Trim(fd.message) # <<>> /\ Len(fd.message) <= 2000

\* C7: the contact-form submit handler proceeds to handleContactSubmit
\* (closes the contact modal, announces it and starts the 300ms timer) exactly
\* when all of these hold: email is non-empty and email-shaped; name is empty
\* or has at least 2 characters after trimming; phone is empty or
\* phone-shaped; reason is non-empty; message is non-empty after trimming and
\* at most 2000 characters long. Otherwise submission is blocked and no modal
\* state changes.
C7_SubmitProceedsIffAllFieldsPass ==
    [][hist'.op = "submitContact" =>
        IF /\ EmailAccepted(hist'.arg) /\ NameAccepted(hist'.arg)
           /\ PhoneAccepted(hist'.arg) /\ ReasonAccepted(hist'.arg)
           /\ MessageAccepted(hist'.arg)
        THEN /\ PendingThankYou' = PendingThankYou + 1
             /\ ~AppState'.isContactModalOpen
             /\ ~modals'["contact-modal"].active
             /\ announcements'[Len(announcements')].text = "Dialog closed"
        ELSE UNCHANGED <<AppState, modals, bodyOverflow, activeElement, timers,
                         announcements, trapCount>>]_vars

\* a submission with an empty name, an empty phone and a message of exactly
\* 2000 characters went through
C7_Witness ==
    /\ hist.op = "submitContact"
    /\ hist.arg.name = <<>> /\ hist.arg.phone = <<>>
    /\ Len(hist.arg.message) = MaxMessageLength
    /\ PendingThankYou = 1
    /\ ~AppState.isContactModalOpen

\* the error state validateContactForm leaves on each field, from that
\* field's value alone
ExpectedError(fd) ==
    [ f \in ContactFields |->
        CASE f = "contact-email" ->
                FieldError(IF Trim(fd.email) = <<>> THEN "Email address is required"
                           ELSE IF ~validateEmail(fd.email)
                                THEN "Please enter a valid email address" ELSE "")
          [] f = "contact-name" ->
                FieldError(IF ~NameAccepted(fd)
                           THEN "Name must be at least 2 characters long" ELSE "")
          [] f = "contact-phone" ->
                FieldError(IF ~PhoneAccepted(fd)
                           THEN "Please enter a valid phone number" ELSE "")
          [] f = "contact-reason" ->
                FieldError(IF fd.reason = <<>>
                           THEN "Please select a reason for contact" ELSE "")
          [] f = "contact-message" ->
                FieldError(IF Trim(fd.message) = <<>> THEN "Message is required"
                           ELSE IF Len(fd.message) > 2000
                                THEN "Message must be 2000 characters or less" ELSE "") ]

\* C8: validateContactForm evaluates all five fields on every call, with no
\* short-circuit: each field's error state after the call depends only on
\* that field's own value, so a form with empty message and empty reason
\* shows "Message is required" and "Please select a reason for contact" at
\* the same time, whatever the other fields hold.
C8_EveryFieldIsValidated ==
    hist.op = "submitContact" =>
        /\ \A f \in ContactFields : errors[f] = ExpectedError(hist.arg)[f]
        /\ (hist.arg.message = <<>> /\ hist.arg.reason = <<>>) =>
              /\ errors["contact-message"].show
              /\ errors["contact-message"].msg = "Message is required"
              /\ errors["contact-reason"].show
              /\ errors["contact-reason"].msg = "Please select a reason for contact"

\* a form whose email, reason and message all fail shows the three errors
C8_Witness ==
    /\ hist.op = "submitContact"
    /\ hist.arg.email = S_noDot /\ hist.arg.name = S_ab /\ hist.arg.phone = S_phone
    /\ hist.arg.reason = <<>> /\ hist.arg.message = <<>>
    /\ errors["contact-email"].msg = "Please enter a valid email address"
    /\ errors["contact-reason"].msg = "Please select a reason for contact"
    /\ errors["contact-message"].msg = "Message is required"
    /\ ~errors["contact-name"].show /\ ~errors["contact-phone"].show

(***************************************************************************)
(* SpecVal: direct calls of FormValidator.validateMessageLength,            *)
(* with a cap given and with the default cap                               *)
(***************************************************************************)
MaxLen == 10    \* lengths of the messages and caps of the calls with a cap

ShortMessages == {Repeat("a", n) : n \in 0..MaxLen} \cup {S_blank}

\* messages around the default cap, and the empty message
DefaultCapMessages ==
    {S_empty, S_a, Repeat("a", MaxMessageLength - 1)} \cup LongMessages

\* validateMessageLength(message, maxLength)
ValidateMessageLength(message, maxLength) ==
    /\ message \in ShortMessages
    /\ vin' = [fn |-> "validateMessageLength", message |-> message,
               maxLength |-> maxLength]
    /\ vout' = validateMessageLength(message, maxLength)
    /\ UNCHANGED <<missing, search, thrown, brandVars, uiVars, hist>>

\* validateMessageLength(message): maxLength takes its default
ValidateMessageLengthDefault(message) ==
    /\ message \in DefaultCapMessages
    /\ vin' = [fn |-> "validateMessageLength", message |-> message,
               maxLength |-> MaxMessageLength]
    /\ vout' = validateMessageLength(message, MaxMessageLength)
    /\ UNCHANGED <<missing, search, thrown, brandVars, uiVars, hist>>

NextVal ==
    \/ \E message \in ShortMessages, maxLength \in 0..MaxLen :
          ValidateMessageLength(message, maxLength)
    \/ \E message \in DefaultCapMessages : ValidateMessageLengthDefault(message)

SpecVal == InitForm /\ [][NextVal]_vars

\* C10: for every message string of any length (from 0 up) and every cap,
\* validateMessageLength(message, cap) accepts exactly when the message
\* length is at most cap; with the default cap a message of exactly 2000
\* characters is accepted and one of 2001 characters is rejected.
C10_AcceptsIffWithinCap ==
    vin.fn = "validateMessageLength" =>
        /\ vout <=> Len(vin.message) <= vin.maxLength
        /\ (vin.maxLength = 2000 /\ Len(vin.message) = 2000) => vout
        /\ (vin.maxLength = 2000 /\ Len(vin.message) = 2001) => ~vout

(***************************************************************************)
(* SpecColor: calls of darkenColor on 6-hex-digit colours, written in      *)
(* lower or upper case, with integer percents                              *)
(***************************************************************************)
ChannelValues == {0, 1, 30, 51, 64, 128, 175, 255}
Percents == {-20, 0, 1, 10, 20, 30, 50, 90, 100, 101}

UpperDigits == <<"0","1","2","3","4","5","6","7","8","9","A","B","C","D","E","F">>

\* the two hex digits of a byte
HexByte(v, digits) == <<digits[(v \div 16) + 1], digits[(v % 16) + 1]>>

HexColor(r, g, b, digits) ==
    <<"#">> \o HexByte(r, digits) \o HexByte(g, digits) \o HexByte(b, digits)

\* the calls made: one per behaviour, drawn by the initial state
ColorCalls ==
    { [fn |-> "darkenColor", color |-> HexColor(r, g, b, digits),
       r |-> r, g |-> g, b |-> b, percent |-> percent, done |-> FALSE] :
        r \in ChannelValues, g \in ChannelValues, b \in ChannelValues,
        digits \in {HexDigits, UpperDigits}, percent \in Percents }

InitColor ==
    /\ missing = {}
    /\ search = "(null)"
    /\ thrown = FALSE
    /\ InitBrandVars
    /\ InitUIVars
    /\ InitHist
    /\ vin \in ColorCalls
    /\ vout = FALSE

\* darkenColor(color, percent)
DarkenColor ==
    /\ vin.fn = "darkenColor" /\ ~vin.done
    /\ vin' = [vin EXCEPT !.done = TRUE]
    /\ vout' = darkenColor(vin.color, vin.percent)
    /\ UNCHANGED <<missing, search, thrown, brandVars, uiVars, hist>>

NextColor == DarkenColor

SpecColor == InitColor /\ [][NextColor]_vars

\* round(2.55 * percent) in exact arithmetic, halves rounded up
ExactRound(percent) == (255 * percent + 50) \div 100

ClampByte(x) == IF x < 0 THEN 0 ELSE IF x > 255 THEN 255 ELSE x

\* C11: for every 6-hex-digit colour and every percent, darkenColor returns
\* "#" followed by exactly 6 hex digits (zero-padded) whose R, G and B
\* channels each equal the input channel minus round(2.55 * percent), clamped
\* to the range 0..255, each channel computed independently of the other two;
\* for ("#1e40af", 20) every channel is reduced by 51 and clamped at 0.
C11_DarkenColorSubtractsRoundedAmount ==
    (vin.fn = "darkenColor" /\ vin.done) =>
        /\ vout = HexColor(ClampByte(vin.r - ExactRound(vin.percent)),
                           ClampByte(vin.g - ExactRound(vin.percent)),
                           ClampByte(vin.b - ExactRound(vin.percent)), HexDigits)
        /\ (vin.color = <<"#","1","e","4","0","a","f">> /\ vin.percent = 20) =>
              vout = <<"#","0","0","0","d","7","c">>

(***************************************************************************)
(* SpecShape: calls of FormValidator.validateEmail and validatePhone on    *)
(* every string over a small alphabet up to a length, and on longer        *)
(* examples                                                                *)
(***************************************************************************)
MaxEmailLen == 6
MaxPhoneLen == 4

Strings(alphabet, n) == UNION {[1..k -> alphabet] : k \in 0..n}

S_userExample == <<"u", "s", "e", "r", "@", "e", "x", "a", "m", "p", "l", "e", ".", "c", "o", "m">>
S_notAnEmail == <<"n", "o", "t", "-", "a", "n", "-", "e", "m", "a", "i", "l">>
S_abc == <<"a", "b", "c">>

EmailValues ==
    Strings({"a", "@", ".", " "}, MaxEmailLen) \cup
    {S_userExample, S_notAnEmail, S_noDot, S_email, S_spacedEmail, S_paddedEmail}

\* digit runs around the 16-digit limit, bare, signed and punctuated
PhoneValues ==
    Strings({"+", "0", "1", " ", "-", "(", "a"}, MaxPhoneLen) \cup
    {S_phone, S_abc} \cup
    {Repeat("9", n) : n \in 15..18} \cup
    {<<"+">> \o Repeat("9", n) : n \in 15..17} \cup
    {<<"(">> \o Repeat("1", 3) \o <<")", " ">> \o Repeat("2", n) : n \in 12..14}

InitShape ==
    /\ missing = {}
    /\ search = "(null)"
    /\ thrown = FALSE
    /\ InitBrandVars
    /\ InitUIVars
    /\ InitHist
    /\ vin \in {[fn |-> "validateEmail", value |-> v, done |-> FALSE] : v \in EmailValues} \cup
               {[fn |-> "validatePhone", value |-> v, done |-> FALSE] : v \in PhoneValues}
    /\ vout = FALSE

\* validateEmail(email)
ValidateEmail ==
    /\ vin.fn = "validateEmail" /\ ~vin.done
    /\ vin' = [vin EXCEPT !.done = TRUE]
    /\ vout' = validateEmail(vin.value)
    /\ UNCHANGED <<missing, search, thrown, brandVars, uiVars, hist>>

\* validatePhone(phone)
ValidatePhone ==
    /\ vin.fn = "validatePhone" /\ ~vin.done
    /\ vin' = [vin EXCEPT !.done = TRUE]
    /\ vout' = validatePhone(vin.value)
    /\ UNCHANGED <<missing, search, thrown, brandVars, uiVars, hist>>

NextShape == ValidateEmail \/ ValidatePhone

SpecShape == InitShape /\ [][NextShape]_vars

\* s has no whitespace and exactly one "@", with something before it, and
\* the part after it has a "." with something before it and something after
EmailShaped(s) ==
    /\ \A i \in 1..Len(s) : ~IsSpace(s[i])
    /\ Cardinality({i \in 1..Len(s) : s[i] = "@"}) = 1
    /\ LET at == CHOOSE i \in 1..Len(s) : s[i] = "@"
           domain == SubSeq(s, at + 1, Len(s))
       IN  /\ at > 1
           /\ \E j \in 2..(Len(domain) - 1) : domain[j] = "."

\* C12: validateEmail(s) is true exactly when s contains no whitespace,
\* contains exactly one "@", has at least one character before the "@", and
\* the part after the "@" contains a "." with at least one character before
\* it and at least one after it; so "user@example.com" is accepted and
\* "not-an-email" and "a@b" are rejected.
C12_ValidateEmailIffEmailShaped ==
    (vin.fn = "validateEmail" /\ vin.done) =>
        /\ vout <=> EmailShaped(vin.value)
        /\ vin.value = S_userExample => vout
        /\ vin.value \in {S_notAnEmail, S_noDot} => ~vout

\* an address whose domain has two dots and starts with one was accepted
C12_Witness ==
    /\ vin.fn = "validateEmail"
    /\ vin.value = <<"a", "@", ".", "a", ".", "a">>
    /\ vin.done /\ vout = TRUE

\* what is left of s once every space, dash and parenthesis is removed
Unpunctuated(s) == SelectSeq(s, LAMBDA c : ~IsSpace(c) /\ c \notin {"-", "(", ")"})

\* r is an optional "+", one digit 1-9, then 0 to 15 more digits
PhoneShaped(r) ==
    LET body == IF r # <<>> /\ r[1] = "+" THEN SubSeq(r, 2, Len(r)) ELSE r
    IN  /\ Len(body) \in 1..16
        /\ body[1] \in {"1","2","3","4","5","6","7","8","9"}
        /\ \A i \in 2..Len(body) : IsDigit(body[i])

\* C13: validatePhone(s) is true exactly when, after every space, dash and
\* parenthesis is removed from s, the remainder is an optional leading "+",
\* then one digit 1-9, then 0 to 15 more digits and nothing else; so
\* "(855) 886-8324" is accepted and "abc" is rejected.
C13_ValidatePhoneIffPhoneShaped ==
    (vin.fn = "validatePhone" /\ vin.done) =>
        /\ vout <=> PhoneShaped(Unpunctuated(vin.value))
        /\ vin.value = S_phone => vout
        /\ vin.value = S_abc => ~vout

\* a punctuated number of exactly 16 digits was accepted
C13_Witness ==
    /\ vin.fn = "validatePhone"
    /\ vin.value = <<"(">> \o Repeat("1", 3) \o <<")", " ">> \o Repeat("2", 13)
    /\ vin.done /\ vout = TRUE

(***************************************************************************)
(* Further properties of the brand configuration, checked under SpecBrand  *)
(***************************************************************************)
\* C14: initializeConfig activates the brand named by the "brand" query
\* parameter when that value is a registered brand id, and for every other
\* parameter value (absent, empty, or any unregistered string) leaves the
\* active brand unchanged and applies the currently selected brand, without
\* raising an exception.
C14_InitializeConfigSelectsRegisteredOnly ==
    hist.op = "initializeConfig" =>
        IF hist.arg \in getAvailableBrands
        THEN currentBrand = hist.arg
        ELSE /\ currentBrand = hist.pre.currentBrand
             /\ ~thrown

\* C15: setCustomBrand(primary, secondary, logoPath, name) changes only
\* visual branding (colour variables, logo, document title, meta description,
\* structured-data tag): it leaves the active brand id, the result of
\* getCurrentBrandConfig(), every label text and the reason dropdown options
\* unchanged.
C15_SetCustomBrandKeepsLabels ==
    hist.op = "setCustomBrand" =>
        /\ currentBrand = hist.pre.currentBrand
        /\ getCurrentBrandConfig(currentBrand) = getCurrentBrandConfig(hist.pre.currentBrand)
        /\ page.text = hist.pre.page.text
        /\ page.placeholder = hist.pre.page.placeholder
        /\ page.options = hist.pre.page.options
        /\ ~thrown

\* a custom brand was applied over the neutral brand: the title names the
\* custom brand and the labels are still the neutral brand's
C15_Witness ==
    /\ hist.op = "setCustomBrand" /\ hist.arg = "Acme Air"
    /\ currentBrand = "neutral"
    /\ page.title = "Login - Acme Air"
    /\ page.ld.data.publisher = "Acme Air"
    /\ page.text["login-description"] = BRAND_CONFIGS.neutral.labels.loginPagePara
    /\ page.text[".phone-number"] = BRAND_CONFIGS.neutral.labels.phoneNumber
    /\ page.options = reasonOptions

\* the last call was a brand change: a registered brand set or named in the
\* query string, or a custom brand applied
BrandChanged ==
    \/ hist.op \in {"setBrand", "initializeConfig"} /\ hist.arg \in getAvailableBrands
    \/ hist.op = "setCustomBrand"

ChangedBrandName ==
    IF hist.op = "setCustomBrand" THEN hist.arg ELSE BRAND_CONFIGS[hist.arg].name

\* C16: after any sequence of setBrand, setCustomBrand and initializeConfig
\* calls, the component has created at most one application/ld+json script
\* tag (none when one already existed), and that single tag's content names
\* the brand of the most recent brand change as publisher.
C16_OneStructuredDataTag ==
    /\ page.scriptsCreated <= 1
    /\ "script[type=ld+json]" \notin missing => page.scriptsCreated = 0
    /\ BrandChanged => page.ld.exists /\ page.ld.data.publisher = ChangedBrandName

(***************************************************************************)
(* SpecPages: brand application, the exported ModalManager and the two     *)
(* form submissions on pages that lack one of the elements the scripts     *)
(* look up: the first operations after the page has loaded, and the        *)
(* thank-you timer they start                                              *)
(***************************************************************************)
LookedUp ==
    { "contact-modal", "thank-you-modal", "contact-modal-title", "email",
      "keep-signed-in", "email-error", "next-button", "next-button span",
      "contact-email", "contact-message", "contact-message-error", "char-count",
      "company-logo", "login-heading", "ok-button", "ok-button span",
      "send-button span", "script[type=ld+json]" }

MissingPages == {{}} \cup {{e} : e \in LookedUp}

InitPages ==
    /\ missing \in MissingPages
    /\ search = "(null)"
    /\ thrown = FALSE
    /\ InitBrandVars
    /\ InitUIVars
    /\ InitValVars
    /\ InitHist

NextPages ==
    \/ InitializeConfig
    \/ \E m \in ModalIds : ApiOpenModal(m)
    \/ \E m \in ModalIds : ApiCloseModal(m)
    \/ SubmitLogin(S_email)
    \/ \E fd \in {ValidForm, [ValidForm EXCEPT !.email = S_noDot]} : SubmitContact(fd)
    \/ \E i \in 1..Len(timers) : timers[i].kind = "openThankYou" /\ FireTimer(i)

SpecPages == InitPages /\ [][NextPages]_vars

\* C17: for every subset of the expected DOM elements that is absent from the
\* page, every operation and every wired event handler (brand application,
\* openModal, closeModal, login submit, contact submit) completes without
\* raising a fault and only skips the updates tied to the absent elements; in
\* particular openModal(id) and closeModal(id) on a missing modal element
\* leave AppState, focus and page scrolling unchanged and emit no
\* announcement.
C17_AbsentElementsAreSkipped ==
    /\ [](~thrown)
    /\ [][(hist'.op \in {"openModal", "closeModal"} /\ hist'.arg \in missing) =>
            UNCHANGED <<AppState, activeElement, bodyOverflow, announcements,
                        timers, modals>>]_vars

(***************************************************************************)
(* Further properties of the modals, checked under SpecUI and SpecApi      *)
(***************************************************************************)
\* C18: in every state reachable through the wired user events (need-help
\* click, close button, OK button, Escape, overlay click, valid contact
\* submit) and the timers they start, at most one of
\* AppState.isContactModalOpen and AppState.isThankYouModalOpen is true.
C18_AtMostOneModalOpen ==
    ~(AppState.isContactModalOpen /\ AppState.isThankYouModalOpen)

\* the last step called openModal / closeModal on a modal the page has
CalledOnExisting(method) ==
    /\ hist.call[1] = method
    /\ hist.call[2] \in ModalIds \ missing

\* C19: after openModal(id) on an existing modal,
\* AppState.currentFocusedElement holds the element that had focus just
\* before the call; after closeModal(id) on an existing modal,
\* AppState.currentFocusedElement is none, whatever sequence of opens and
\* closes came before.
C19_CaptureSetOnOpenClearedOnClose ==
    /\ CalledOnExisting("openModal") => AppState.currentFocusedElement = hist.focus
    /\ CalledOnExisting("closeModal") => AppState.currentFocusedElement = "null"

\* the contact modal was closed while the thank-you modal, opened after it,
\* stayed open: the capture is cleared all the same
C19_Witness ==
    /\ hist.op = "closeModal" /\ hist.arg = "contact-modal"
    /\ hist.opened[1] = "thank-you-modal"
    /\ AppState.isThankYouModalOpen
    /\ AppState.currentFocusedElement = "null"

\* C20: closeAllModals() sets both isContactModalOpen and
\* isThankYouModalOpen to false, hides every overlay and restores page
\* scrolling, and leaves AppState.currentFocusedElement and the keyboard
\* focus unchanged and creates no screen-reader announcement.
C20_CloseAllModalsFrame ==
    [][hist'.op = "closeAllModals" =>
        /\ ~AppState'.isContactModalOpen /\ ~AppState'.isThankYouModalOpen
        /\ \A m \in ModalIds \ missing :
              modals'[m] = [active |-> FALSE, ariaHidden |-> "true"]
        /\ bodyOverflow' = ""
        /\ AppState'.currentFocusedElement = AppState.currentFocusedElement
        /\ UNCHANGED <<activeElement, announcements, timers>>]_vars

\* closeAllModals was called with the contact modal open: the capture and
\* the focus inside the modal are left as they were
C20_Witness ==
    /\ hist.op = "closeAllModals"
    /\ hist.opened[1] = "contact-modal"
    /\ AppState.currentFocusedElement = "need-help-link"
    /\ activeElement = "close-contact-modal"
    /\ ~AppState.isContactModalOpen /\ ~modals["contact-modal"].active
    /\ bodyOverflow = ""

(***************************************************************************)
(* SpecRules: FormHandler.validateField on rule lists of every order       *)
(***************************************************************************)
MaxRules == 3       \* rules in one list

\* the rules the two forms use
RulePool ==
    UNION { {ContactRules[f][i] : i \in 1..Len(ContactRules[f])} :
              f \in DOMAIN ContactRules }

RuleLists == UNION {[1..k -> RulePool] : k \in 0..MaxRules}

RuleValues == {S_empty, S_blank, S_a, S_ab, S_noDot, S_email, S_zeroPhone, S_phone}

\* the error a field shows after a failed validation
StaleError == [cls |-> TRUE, msg |-> "Email address is required", show |-> TRUE]

RuleCalls ==
    [ fn : {"validateField"}, fieldId : {"email", "contact-message"},
      value : RuleValues, rules : RuleLists, done : {FALSE} ]

InitRules ==
    /\ missing = {}
    /\ search = "(null)"
    /\ thrown = FALSE
    /\ InitBrandVars
    /\ AppState = [ isContactModalOpen |-> FALSE, isThankYouModalOpen |-> FALSE,
                    currentFocusedElement |-> "null" ]
    /\ modals = [m \in ModalIds |-> [active |-> FALSE, ariaHidden |-> "true"]]
    /\ bodyOverflow = ""
    /\ activeElement = "body"
    /\ announcements = <<[id |-> 1, text |-> "Login page loaded"]>>
    /\ timers = <<[kind |-> "removeAnnouncement", delay |-> AnnounceDelay, data |-> 1]>>
    /\ nextButton = [text |-> "Next", bg |-> ""]
    /\ vin \in RuleCalls
    /\ \E stale \in {NoError, StaleError} :
          errors = [f \in FormFields |-> IF f = vin.fieldId THEN stale ELSE NoError]
    /\ trapCount = [m \in ModalIds |-> 0]
    /\ charCount = [text |-> "0/2000", color |-> "(stylesheet)"]
    /\ vout = FALSE
    /\ InitHist

\* FormHandler.validateField(fieldId, value, validationRules)
ValidateField ==
    /\ vin.fn = "validateField" /\ ~vin.done
    /\ LET r == validateField(errors, vin.fieldId, vin.value, vin.rules, missing)
       IN  /\ errors' = r.errors
           /\ vout' = [isValid |-> r.isValid, evaluated |-> r.evaluated]
    /\ vin' = [vin EXCEPT !.done = TRUE]
    /\ UNCHANGED <<missing, search, thrown, brandVars, AppState, modals, bodyOverflow,
                   activeElement, timers, announcements, nextButton, trapCount,
                   charCount, hist>>

NextRules == ValidateField

SpecRules == InitRules /\ [][NextRules]_vars

\* positions of the rules whose predicate rejects the value
Rejecting(value, rules) ==
    {i \in 1..Len(rules) : ~RunValidator(rules[i].validator, value)}

\* the least position of a non-empty set of positions
Least(positions) == CHOOSE i \in positions : \A j \in positions : i <= j

\* C21: validateField(fieldId, value, rules) applies the rules in list order
\* and stops at the first rule whose predicate rejects the value: it then
\* shows that rule's message on the field and returns false; when the list
\* is empty or every rule accepts, it clears the field's error and returns
\* true.  A later rule is never evaluated after a failing one.
C21_FirstFailingRuleIsReported ==
    (vin.fn = "validateField" /\ vin.done) =>
        LET rejecting == Rejecting(vin.value, vin.rules)
        IN  IF rejecting = {}
            THEN /\ vout.isValid
                 /\ errors[vin.fieldId] = NoError
                 /\ vout.evaluated = vin.rules
            ELSE /\ ~vout.isValid
                 /\ errors[vin.fieldId] =
                        [cls |-> TRUE, msg |-> vin.rules[Least(rejecting)].message,
                         show |-> TRUE]
                 /\ vout.evaluated = SubSeq(vin.rules, 1, Least(rejecting))

\* a list whose first rule accepts the value and whose second and third both
\* reject it: the second rule's message is shown and the third is not called
C21_Witness ==
    /\ vin.fn = "validateField" /\ vin.done
    /\ Len(vin.rules) = 3
    /\ Rejecting(vin.value, vin.rules) = {2, 3}
    /\ vin.rules[2].message # vin.rules[3].message
    /\ errors[vin.fieldId].msg = vin.rules[2].message
    /\ Len(vout.evaluated) = 2

(***************************************************************************)
(* Screen-reader announcements, checked under SpecUI                       *)
(***************************************************************************)
\* the pending timers that remove announcement node n
RemovalTimers(n) ==
    {i \in 1..Len(timers) : timers[i].kind = "removeAnnouncement" /\ timers[i].data = n}

\* the announcement nodes in the document
Nodes(anns) == {anns[k].id : k \in 1..Len(anns)}

\* C23: every screen-reader announcement node that announceToScreenReader
\* appends to the document is removed exactly once, when its own 1000ms
\* timer fires, and that removal never fails; with any number of
\* overlapping announcements, once all timers have fired no announcement
\* node remains in the document.
C23_AnnouncementsRemovedOnce ==
    /\ [](/\ ~thrown
          /\ \A k \in 1..Len(announcements) :
                /\ Cardinality(RemovalTimers(announcements[k].id)) = 1
                /\ timers[CHOOSE i \in RemovalTimers(announcements[k].id) : TRUE].delay
                       = 1000
                /\ \A j \in 1..Len(announcements) :
                      announcements[j].id = announcements[k].id => j = k
          /\ \A i \in 1..Len(timers) :
                timers[i].kind = "removeAnnouncement" =>
                    timers[i].data \in Nodes(announcements)
          /\ timers = <<>> => announcements = <<>>)
    /\ [][\A n \in Nodes(announcements) \ Nodes(announcements') :
            /\ hist'.op = "timer" /\ hist'.arg = "removeAnnouncement"
            /\ Nodes(announcements) \ Nodes(announcements') = {n}
            /\ RemovalTimers(n) # {}
            /\ \E i \in RemovalTimers(n) : timers' = RemoveAt(timers, i)]_vars

\* the contact modal was opened and closed, each with its announcement, and
\* the last pending timer has fired: the document holds no announcement node
C23_Witness ==
    /\ hist.op = "timer" /\ hist.arg = "removeAnnouncement"
    /\ trapCount["contact-modal"] > 0
    /\ ~AppState.isContactModalOpen
    /\ timers = <<>>
    /\ announcements = <<>>

(***************************************************************************)
(* SpecTrap: Tab and Shift+Tab while modals are opened and closed          *)
(***************************************************************************)
NextTrap ==
    \/ \E m \in ModalIds : ApiOpenModal(m)
    \/ \E m \in ModalIds : ApiCloseModal(m)
    \/ \E shiftKey \in BOOLEAN : KeyTab(shiftKey)
    \/ \E i \in 1..MaxTimers + 2 : FireTimer(i)

SpecTrap == InitUI /\ [][NextTrap]_vars

\* the element one step from e in the cycle through elements
CycleStep(elements, e, shiftKey) ==
    LET n == Len(elements)
        p == CHOOSE i \in 1..n : elements[i] = e
    IN  IF shiftKey THEN elements[((p + n - 2) % n) + 1] ELSE elements[(p % n) + 1]

\* C22: while a modal is open and focus is on one of its focusable
\* elements, every sequence of Tab and Shift+Tab presses keeps focus inside
\* that modal's focusable-element set: Tab on the last element moves focus
\* to the first, Shift+Tab on the first moves focus to the last, each press
\* moves focus by exactly one step, and this holds however many times the
\* modal has been opened before.
C22_TabCyclesInsideModal ==
    [][hist'.op = "keyTab" =>
        \A m \in ModalIds \ missing :
            (/\ modals[m].active
             /\ \E i \in 1..Len(focusableElements(m, missing)) :
                    focusableElements(m, missing)[i] = activeElement)
            => activeElement' = CycleStep(focusableElements(m, missing), activeElement,
                                          hist'.arg = "Shift+Tab")]_vars

\* Tab on the last element of the contact modal, opened for the second time,
\* has moved focus to its first element
C22_Witness ==
    /\ hist.op = "keyTab" /\ hist.arg = "Tab"
    /\ hist.focus = "send-button"
    /\ modals["contact-modal"].active
    /\ trapCount["contact-modal"] = 2
    /\ activeElement = "close-contact-modal"

(***************************************************************************)
(* Flags, visibility and scrolling                                         *)
(***************************************************************************)
\* the overlay has the 'active' class and aria-hidden 'false'
Visible(modalId) ==
    modals[modalId].active /\ modals[modalId].ariaHidden = "false"

\* C24: after any sequence of openModal, closeModal and closeAllModals calls
\* on the contact and thank-you modals (both present as overlays),
\* AppState.isContactModalOpen is true exactly when the contact modal is
\* visible (has the 'active' flag and aria-hidden 'false'), and likewise
\* isThankYouModalOpen for the thank-you modal.
C24_FlagsMatchVisibility ==
    (ModalIds \cap missing = {}) =>
        /\ AppState.isContactModalOpen <=> Visible("contact-modal")
        /\ AppState.isThankYouModalOpen <=> Visible("thank-you-modal")
        /\ \A m \in ModalIds : modals[m].active <=> modals[m].ariaHidden = "false"

\* both modals were opened and closeAllModals was called: both flags are
\* false and both overlays hidden
C24_Witness ==
    /\ hist.op = "closeAllModals"
    /\ ModalIds \cap missing = {}
    /\ \A m \in ModalIds : trapCount[m] > 0 /\ ~Visible(m)
    /\ ~AppState.isContactModalOpen /\ ~AppState.isThankYouModalOpen

\* C25: in every reachable state, page scrolling is suspended (body overflow
\* 'hidden') whenever at least one modal is visible, and is restored only
\* when no modal is visible.
C25_ScrollSuspendedWhileVisible ==
    /\ (\E m \in ModalIds : Visible(m)) => bodyOverflow = "hidden"
    /\ bodyOverflow = "" => \A m \in ModalIds : ~Visible(m)

====
